---- MODULE Spec2Model ----
(***************************************************************************)
(* The Editors component of src/renderer/components/editors.tsx: the       *)
(* shared Monaco options object and its toggling, the registry of live     *)
(* editors, command dispatch to the focused editor, and engine loading.    *)
(*                                                                         *)
(* JavaScript objects are modelled on a heap of references, because the    *)
(* code's object spread ({ ...monacoOptions }) copies one level only and   *)
(* what a later write reaches depends on which objects are shared.         *)
(***************************************************************************)
EXTENDS Integers, Sequences, FiniteSets, TLC

VARIABLES
  heap,             \* the JS objects holding Monaco options, by reference
  state,            \* this.state of the Editors component
  registryPresent,  \* whether window.ElectronFiddle.editors is defined
  editors,          \* window.ElectronFiddle.editors: EditorId -> editor | null
  appMonaco,        \* window.ElectronFiddle.app.monaco
  loads,            \* the loadMonaco calls made so far, each with its position
  last,             \* the most recent operation: its arguments, result and effects
  mosaicArrangement,\* appState.mosaicArrangement
  layoutTimer,      \* whether a debounced updateEditorLayout call is pending
  window,           \* the arrangement changes and layout updates of the current debounce window
  unmounted,        \* whether componentWillUnmount has run on this component
  stale,            \* the torn-down Editors instances whose IPC listeners remain
  theme,            \* appState.theme
  version,          \* appState.version
  dialog,           \* the discard confirmation dialog
  contents,         \* the content of each pane
  requests          \* the runs of the FS_NEW_FIDDLE listener, each with its position

\* the arrangement and its debounced layout update
layoutVars == <<mosaicArrangement, layoutTimer, window>>

\* the component's teardown and the instances before it
lifeVars == <<unmounted, stale>>

\* what the FS_NEW_FIDDLE listener reads and writes
fiddleVars == <<version, dialog, contents, requests>>

vars == <<heap, state, registryPresent, editors, appMonaco, loads, last,
          layoutVars, lifeVars, theme, fiddleVars>>

----------------------------------------------------------------------------
(* Bounds *)

\* how many loadMonaco calls are made in one behaviour
MaxCalls == 2

\* how many object references the heap offers
HeapSize == 5

\* how many arrangement changes one debounce window takes
MaxChanges == 3

\* how many FS_NEW_FIDDLE messages arrive in one behaviour
MaxFiddles == 2

\* how many times the component is constructed again after a teardown
MaxRemounts == 1

----------------------------------------------------------------------------
(* Values and objects *)

\* the panes (the keys of TITLE_MAP)
EditorId == {"main", "renderer", "html"}

\* the order in which Object.keys enumerates the registry
RegistryKeys == <<"main", "renderer", "html">>

Ref == 0 .. (HeapSize - 1)

\* a JS value is tagged with its type, so that values of different types compare
Bool(b) == [t |-> "bool", v |-> b]
Str(s) == [t |-> "str", v |-> s]
RefTo(r) == [t |-> "ref", v |-> r]
Obj(tree) == [t |-> "obj", v |-> tree]
Undefined == [t |-> "undefined", v |-> FALSE]

\* null, as a registry entry
Null == [null |-> TRUE]

\* the mosaic trees: null, a pane, or two trees side by side
Leaf(id) == [leaf |-> id]
Split(direction, first, second) ==
  [direction |-> direction, first |-> first, second |-> second]

\* the arrangements onChange is called with
Arrangements ==
  { Null, Leaf("main"), Split("row", Leaf("main"), Leaf("renderer")),
    Split("row", Leaf("main"), Split("column", Leaf("renderer"), Leaf("html"))) }

\* the theme names and the Electron versions that can be selected
Themes == {"dark", "light"}
Versions == {"2.0.2", "3.0.0"}

\* no engine: app.monaco or state.monaco undefined
NoEngine == "undefined"

\* the engine instances a loader invocation can resolve with
Engine == {"monacoA", "monacoB"}

\* the reference of the module-level defaultMonacoOptions and of its minimap object
DefaultRef == 0
DefaultMinimapRef == 1

\* const defaultMonacoOptions = { minimap: { enabled: false }, wordWrap: 'on' }
defaultMonacoOptions ==
  (DefaultRef :> [minimap |-> RefTo(DefaultMinimapRef), wordWrap |-> Str("on")])
  @@ (DefaultMinimapRef :> [enabled |-> Bool(FALSE)])

\* the values readable through reference ref, nested objects followed
RECURSIVE ValueOf(_, _)
ValueOf(h, ref) ==
  [k \in DOMAIN h[ref] |->
     IF h[ref][k].t = "ref" THEN Obj(ValueOf(h, h[ref][k].v)) ELSE h[ref][k]]

\* the references reachable from a set of roots
RECURSIVE Reach(_, _)
Reach(h, roots) ==
  LET next == roots \cup
        {h[r][k].v : <<r, k>> \in
           {p \in roots \X {"minimap", "wordWrap", "enabled"} :
              p[2] \in DOMAIN h[p[1]] /\ h[p[1]][p[2]].t = "ref"}}
  IN IF next = roots THEN roots ELSE Reach(h, next)

\* garbage collection: only what the module constant and this.state reach stays,
\* and the current options object moves to the lowest free reference (a
\* reference has no meaning of its own; nothing refers to an options object
\* but this.state)
Collect(h, st) ==
  LET cur == st.monacoOptions
      live == Reach(h, {DefaultRef, cur})
      free == Ref \ (live \ {cur})
      slot == CHOOSE r \in free : \A q \in free : r <= q
  IN [heap |-> [r \in (live \ {cur}) \cup {slot} |->
                  IF r = slot THEN h[cur] ELSE h[r]],
      state |-> [st EXCEPT !.monacoOptions = slot]]

\* a fresh reference
NewRef(h) == CHOOSE r \in Ref \ DOMAIN h : \A q \in Ref \ DOMAIN h : r <= q

----------------------------------------------------------------------------
(* utils/js-path and utils/toggle-monaco *)

\* the dotted paths the toggle-option message is sent with, split at the dots
Paths ==
  { <<"minimap", "enabled">>, <<"wordWrap">>,
    <<"minimap">>, <<"bogus">>, <<"minimap", "bogus">> }

\* getAtPath(path, obj): the value at the path, Undefined when it does not resolve
RECURSIVE getAtPath(_, _, _)
getAtPath(path, val, h) ==
  IF path = <<>> THEN val
  ELSE IF val.t # "ref" THEN Undefined
  ELSE IF Head(path) \notin DOMAIN h[val.v] THEN Undefined
  ELSE getAtPath(Tail(path), h[val.v][Head(path)], h)

\* whether toggleMonaco has a next value for the value: a boolean or an on/off setting
Togglable(val) == val.t \in {"bool", "str"}

\* toggleMonaco(input): negate a boolean, cycle 'on' and 'off'
toggleMonaco(val) ==
  IF val.t = "bool" THEN Bool(~val.v)
  ELSE IF val.v = "on" THEN Str("off") ELSE Str("on")

\* setAtPath(path, obj, value): assign at the path, in place, in the object the
\* path leads to
RECURSIVE setAtPath(_, _, _, _)
setAtPath(path, ref, val, h) ==
  IF Len(path) = 1
    THEN [h EXCEPT ![ref] = [k \in DOMAIN @ \cup {path[1]} |->
                               IF k = path[1] THEN val ELSE @[k]]]
    ELSE setAtPath(Tail(path), h[ref][Head(path)].v, val, h)

----------------------------------------------------------------------------
(* The editor registry and the focused editor *)

\* the panes holding a live (non-null) editor
LiveEditors(eds) == {id \in EditorId : eds[id] # Null}

\* no editor: what getFocusedEditor returns when no editor reports focus
NoEditor == "null"

\* getFocusedEditor(): the first editor, in registry order, that reports text
\* focus; focused is the set of editors whose hasTextFocus() answers true
getFocusedEditor(eds, present, focused) ==
  LET hits == {i \in DOMAIN RegistryKeys :
                 /\ present
                 /\ eds[RegistryKeys[i]] # Null
                 /\ RegistryKeys[i] \in focused}
  IN IF hits = {} THEN NoEditor
     ELSE RegistryKeys[CHOOSE i \in hits : \A j \in hits : i <= j]

\* what editor.getAction(commandId) can answer: null, or a command that is
\* supported or not in the editor's current state
Commands == {"null", "unsupported", "supported"}

----------------------------------------------------------------------------
(* executeCommand *)

\* executeCommand without the guard on the focused editor
executeCommandUnguarded(editor, command) ==
  IF editor = NoEditor \/ command = "null"
    THEN [runs |-> <<>>, threw |-> TRUE]
    ELSE [runs |-> IF command = "supported" THEN <<editor>> ELSE <<>>,
          threw |-> FALSE]

\* executeCommand with the test of isSupported() negated
executeCommandNegatedTest(editor, command) ==
  IF editor # NoEditor
    THEN IF command = "null"
           THEN [runs |-> <<>>, threw |-> TRUE]
           ELSE IF command = "unsupported"
                  THEN [runs |-> <<editor>>, threw |-> FALSE]
                  ELSE [runs |-> <<>>, threw |-> FALSE]
    ELSE [runs |-> <<>>, threw |-> FALSE]

\* executeCommand(commandId), given the focused editor and what its getAction
\* answers: the editors whose command was run, in order, and whether an error
\* left the method. Logging reads command.id before command is tested.
executeCommand(editor, command) ==
  IF editor # NoEditor
    THEN IF command = "null"
           THEN [runs |-> <<>>, threw |-> TRUE]
           ELSE IF command = "supported"
                  THEN [runs |-> <<editor>>, threw |-> FALSE]
                  ELSE [runs |-> <<>>, threw |-> FALSE]
    ELSE [runs |-> <<>>, threw |-> FALSE]

----------------------------------------------------------------------------
(* toggleEditorOption *)

\* the values an options object holds, as one value
Snapshot(h, ref) == Obj(ValueOf(h, ref))

\* { ...monacoOptions }: a new object with the fields of the old one; a field
\* that is a reference still refers to the same nested object
shallowCopy(h, from, new) == (new :> h[from]) @@ h

\* the forEach that stops after the first editor it updated
RECURSIVE forEachEditorFirstOnly(_, _, _, _, _)
forEachEditorFirstOnly(i, eds, newOptions, unready, applied) ==
  IF i > Len(RegistryKeys) \/ applied # <<>>
    THEN [editors |-> eds, threw |-> NoEditor, applied |-> applied]
    ELSE LET key == RegistryKeys[i] IN
         IF eds[key] = Null
           THEN forEachEditorFirstOnly(i + 1, eds, newOptions, unready, applied)
           ELSE IF key \in unready
                  THEN [editors |-> eds, threw |-> key, applied |-> applied]
                  ELSE forEachEditorFirstOnly(
                         i + 1, [eds EXCEPT ![key] = [options |-> newOptions]],
                         newOptions, unready,
                         Append(applied, [editor |-> key, options |-> newOptions]))

\* Object.keys(editors).forEach: updateOptions(newOptions) on every non-null
\* editor from key i on, in key order. An editor in unready throws from
\* updateOptions, which ends the forEach. applied lists the calls that returned.
RECURSIVE forEachEditor(_, _, _, _, _)
forEachEditor(i, eds, newOptions, unready, applied) ==
  IF i > Len(RegistryKeys)
    THEN [editors |-> eds, threw |-> NoEditor, applied |-> applied]
    ELSE LET key == RegistryKeys[i] IN
         IF eds[key] = Null
           THEN forEachEditor(i + 1, eds, newOptions, unready, applied)
           ELSE IF key \in unready
                  THEN [editors |-> eds, threw |-> key, applied |-> applied]
                  ELSE forEachEditor(
                         i + 1, [eds EXCEPT ![key] = [options |-> newOptions]],
                         newOptions, unready,
                         Append(applied, [editor |-> key, options |-> newOptions]))

\* a catch block that reports success
catchBlockReturnsTrue(st, eds, h, applied, threw, newOptions) ==
  [ret |-> TRUE, state |-> st, editors |-> eds, heap |-> h,
   applied |-> applied, threw |-> threw, newOptions |-> newOptions]

\* catch (error): warn and return false; whatever the try block did stays done
catchBlock(st, eds, h, applied, threw, newOptions) ==
  [ret |-> FALSE, state |-> st, editors |-> eds, heap |-> h,
   applied |-> applied, threw |-> threw, newOptions |-> newOptions]

\* the try block: copy the options, toggle the value at the path in the copy,
\* push the copy to every editor, then setState
tryBlock(path, unready, st, eds, h) ==
  LET monacoOptions == st.monacoOptions
      new == NewRef(h)
      h1 == shallowCopy(h, monacoOptions, new)
      currentSetting == getAtPath(path, RefTo(new), h1)
  IN IF ~Togglable(currentSetting)
       THEN catchBlock(st, eds, h1, <<>>, NoEditor, Undefined)
       ELSE LET h2 == setAtPath(path, new, toggleMonaco(currentSetting), h1)
                newOptions == Snapshot(h2, new)
                push == forEachEditor(1, eds, newOptions, unready, <<>>)
            IN IF push.threw # NoEditor
                 THEN catchBlock(st, push.editors, h2, push.applied,
                                 push.threw, newOptions)
                 ELSE [ret |-> TRUE,
                       state |-> [st EXCEPT !.monacoOptions = new],
                       editors |-> push.editors, heap |-> h2,
                       applied |-> push.applied, threw |-> NoEditor,
                       newOptions |-> newOptions]

\* toggleEditorOption(path): its return value and what it leaves behind
toggleEditorOption(path, unready, st, eds, h, present) ==
  IF ~present
    THEN [ret |-> FALSE, state |-> st, editors |-> eds, heap |-> h,
          applied |-> <<>>, threw |-> NoEditor, newOptions |-> Undefined]
    ELSE tryBlock(path, unready, st, eds, h)

----------------------------------------------------------------------------
(* loadMonaco *)

\* the cache write that always stores what this call loaded
cacheEngineAlways(cached, monaco) == monaco

\* if (!app.monaco) app.monaco = monaco
cacheEngine(cached, monaco) == IF cached = NoEngine THEN monaco ELSE cached

\* the end of loadMonaco: before the component is mounted this.state is
\* replaced, afterwards setState({ monaco })
setLoaded(st, monaco) ==
  IF ~st.isMounted
    THEN [monaco |-> monaco, isMounted |-> FALSE, monacoOptions |-> DefaultRef]
    ELSE [st EXCEPT !.monaco = monaco]

\* the theme name as it was when loadMonaco was called
themeReadAtCall(themeAtCall, themeNow) == themeAtCall

\* this.props.appState.theme, read at the end of loadMonaco, after the await
themeAtActivation(themeAtCall, themeNow) == themeNow

\* activateTheme(monaco, undefined, name)
activateTheme(monaco, name) == [monaco |-> monaco, theme |-> name]

\* a render that does not wait for the engine
renderWithoutEngine(st) == TRUE

\* render(): whether it produces the mosaic and its panes; without an engine
\* in this.state it returns null
render(st) == st.monaco # NoEngine

\* the loadMonaco calls that invoked the loader
LoaderInvocations == {i \in DOMAIN loads : loads[i].viaLoader}

----------------------------------------------------------------------------
(* The arrangement and the layout reaction *)

\* an onChange whose reaction never runs
onChangeWithoutReaction(currentNode, arrangement) ==
  [arrangement |-> currentNode, observed |-> currentNode, reacted |-> FALSE]

\* an onChange that notifies the reaction before it stores the new arrangement
onChangeNotifiesFirst(currentNode, arrangement) ==
  [arrangement |-> currentNode, observed |-> arrangement,
   reacted |-> currentNode # arrangement]

\* onChange(currentNode): appState.mosaicArrangement = currentNode. The
\* reaction then evaluates its expression, which reads the arrangement as it is
\* after the assignment, and runs its effect when the value has changed.
onChange(currentNode, arrangement) ==
  [arrangement |-> currentNode, observed |-> currentNode,
   reacted |-> currentNode # arrangement]

\* updateEditorLayout(): debounced; a call drops the pending call, if there is
\* one, and leaves one call pending
updateEditorLayout(pending) == TRUE

----------------------------------------------------------------------------
(* The FS_NEW_FIDDLE listener *)

\* the panes in the order the listener awaits their content
FiddleOrder == <<"html", "renderer", "main">>

\* the pane awaited after pane id, "done" after the last
NextPane(id) ==
  IF id = "html" THEN "renderer" ELSE IF id = "renderer" THEN "main" ELSE "done"

\* getContent(id, version): the content of a pane for a version
getContent(id, v) == [pane |-> id, version |-> v]

\* the version read from appState again at each getContent call
versionReadAgain(versionAtArrival, versionNow) == versionNow

\* const { version } = this.props.appState, read once when the message
\* arrives and passed to every getContent call
versionForRequest(versionAtArrival, versionNow) == versionAtArrival

\* window.ElectronFiddle.app.setValues({ html, renderer, main }): every pane
\* gets the value given for it; run names the listener run that made the call
setValues(got, run) ==
  [id \in EditorId |->
     LET value == got[CHOOSE k \in DOMAIN FiddleOrder : FiddleOrder[k] = id]
     IN [pane |-> value.pane, version |-> value.version, run |-> run]]

----------------------------------------------------------------------------
(* The listeners of ipcRendererManager *)

\* the listeners registered for a message: componentDidMount adds one for the
\* instance it runs on and nothing removes one, so every instance that was
\* mounted has its listener, the replaced instances (stl) first
Listeners(stl, st) == Len(stl) + IF st.isMounted THEN 1 ELSE 0

\* MONACO_EXECUTE_COMMAND is emitted: listeners k to n run executeCommand, in
\* the order they were registered; an error thrown by one leaves the emit
RECURSIVE emitExecuteCommand(_, _, _, _, _)
emitExecuteCommand(k, n, editor, command, acc) ==
  IF k > n THEN acc
  ELSE LET r == executeCommand(editor, command) IN
       IF r.threw
         THEN [invocations |-> acc.invocations + 1, runs |-> acc.runs, threw |-> TRUE]
         ELSE emitExecuteCommand(k + 1, n, editor, command,
                                 [invocations |-> acc.invocations + 1,
                                  runs |-> acc.runs \o r.runs, threw |-> FALSE])

\* toggleEditorOption(path) on an unmounted instance whose state holds the
\* options object given: the editors and the objects shared with other options
\* are changed, the setState of an unmounted component changes nothing
unmountedToggle(path, options, st, eds, h, present) ==
  LET tmp == NewRef(h)
      r == toggleEditorOption(path, {}, [st EXCEPT !.monacoOptions = tmp], eds,
                              (tmp :> options) @@ h, present)
      gc == Collect([x \in DOMAIN r.heap \ {tmp} |-> r.heap[x]], st)
  IN [ret |-> r.ret, editors |-> r.editors, heap |-> gc.heap, state |-> gc.state]

\* toggleEditorOption(path) on the mounted instance
mountedToggle(path, st, eds, h, present) ==
  LET r == toggleEditorOption(path, {}, st, eds, h, present)
      gc == Collect(r.heap, r.state)
  IN [ret |-> r.ret, editors |-> r.editors, heap |-> gc.heap, state |-> gc.state]

\* MONACO_TOGGLE_OPTION is emitted: the listeners from k on run
\* toggleEditorOption, in the order they were registered; live says whether
\* the current instance is still mounted
RECURSIVE emitToggleOption(_, _, _, _, _, _)
emitToggleOption(k, stl, live, path, present, acc) ==
  IF k > Listeners(stl, acc.state) THEN acc
  ELSE LET r == IF k <= Len(stl)
                  THEN unmountedToggle(path, stl[k].monacoOptions, acc.state,
                                       acc.editors, acc.heap, present)
                  ELSE IF live
                    THEN mountedToggle(path, acc.state, acc.editors, acc.heap, present)
                    ELSE unmountedToggle(path, acc.heap[acc.state.monacoOptions],
                                         acc.state, acc.editors, acc.heap, present)
       IN emitToggleOption(k + 1, stl, live, path, present,
                           [state |-> r.state, editors |-> r.editors, heap |-> r.heap,
                            rets |-> Append(acc.rets, r.ret)])

----------------------------------------------------------------------------
(* The state machine *)

\* after the constructor, in a window whose engine is not loaded yet: the
\* default options are current and the constructor's loadMonaco awaits the loader
Init ==
  /\ heap = defaultMonacoOptions
  /\ state = [monaco |-> NoEngine, isMounted |-> FALSE, monacoOptions |-> DefaultRef]
  /\ registryPresent \in BOOLEAN
  /\ editors = [id \in EditorId |-> Null]
  /\ appMonaco = NoEngine
  /\ loads = << [owner |-> "this", pc |-> "awaiting", viaLoader |-> TRUE,
                 cachedAtCall |-> FALSE, monaco |-> NoEngine,
                 themeAtCall |-> "dark"] >>
  /\ last = [op |-> "constructor"]
  /\ mosaicArrangement =
       Split("row", Leaf("main"), Split("column", Leaf("renderer"), Leaf("html")))
  /\ layoutTimer = FALSE
  /\ window = [changes |-> <<>>, writes |-> 0]
  /\ unmounted = FALSE
  /\ stale = <<>>
  /\ theme = "dark"
  /\ version = "2.0.2"
  /\ dialog = "hidden"
  /\ contents = [id \in EditorId |-> [pane |-> id, version |-> "unsaved", run |-> 0]]
  /\ requests = <<>>

\* componentDidMount: setState({ isMounted: true })
ComponentDidMount ==
  /\ ~state.isMounted
  /\ state' = [state EXCEPT !.isMounted = TRUE]
  /\ last' = [op |-> "componentDidMount"]
  /\ UNCHANGED <<heap, registryPresent, editors, appMonaco, loads>>
  /\ UNCHANGED <<layoutVars, lifeVars, theme, fiddleVars>>

\* render creates the Editor of a pane, which creates its editor with the
\* options it is given, defaultMonacoOptions, and registers it
PaneMount(id) ==
  /\ registryPresent
  /\ state.isMounted /\ ~unmounted
  /\ render(state)
  /\ editors[id] = Null
  /\ editors' = [editors EXCEPT ![id] = [options |-> Snapshot(heap, DefaultRef)]]
  /\ last' = [op |-> "paneMount", id |-> id]
  /\ UNCHANGED <<heap, state, registryPresent, appMonaco, loads>>
  /\ UNCHANGED <<layoutVars, lifeVars, theme, fiddleVars>>

\* a pane is closed: its editor leaves the registry
PaneUnmount(id) ==
  /\ registryPresent
  /\ editors[id] # Null
  /\ editors' = [editors EXCEPT ![id] = Null]
  /\ last' = [op |-> "paneUnmount", id |-> id]
  /\ UNCHANGED <<heap, state, registryPresent, appMonaco, loads>>
  /\ UNCHANGED <<layoutVars, lifeVars, theme, fiddleVars>>

\* a MONACO_EXECUTE_COMMAND message: executeCommand(cmd). The editors that
\* report focus and the answer of getAction are the editors' own.
ExecuteCommand ==
  /\ state.isMounted
  /\ \E focused \in SUBSET LiveEditors(editors), command \in Commands :
       \E editor \in {getFocusedEditor(editors, registryPresent, focused)} :
         \E r \in {executeCommand(editor, command)} :
           last' = [op |-> "executeCommand", focused |-> focused, editor |-> editor,
                    command |-> IF editor = NoEditor THEN "null" ELSE command,
                    runs |-> r.runs, threw |-> r.threw]
  /\ UNCHANGED <<heap, state, registryPresent, editors, appMonaco, loads>>
  /\ UNCHANGED <<layoutVars, lifeVars, theme, fiddleVars>>

\* a MONACO_TOGGLE_OPTION message: toggleEditorOption(cmd). unready holds the
\* editor whose updateOptions throws on this call, if one does (the forEach
\* ends at the first throw, so one editor stands for any set that it heads).
ToggleEditorOption ==
  /\ state.isMounted
  /\ Ref \ DOMAIN heap # {}
  /\ \E path \in Paths :
       \E unready \in {{}} \cup {{id} : id \in LiveEditors(editors)} :
         \E r \in {toggleEditorOption(path, unready, state, editors, heap,
                                      registryPresent)} :
           \E gc \in {Collect(r.heap, r.state)} :
             /\ state' = gc.state
             /\ editors' = r.editors
             /\ heap' = gc.heap
             /\ last' = [op |-> "toggleEditorOption", path |-> path, ret |-> r.ret,
                         registered |-> LiveEditors(editors),
                         applied |-> r.applied, threw |-> r.threw,
                         newOptions |-> r.newOptions,
                         oldBefore |-> Snapshot(heap, state.monacoOptions),
                         oldAfter |-> Snapshot(r.heap, state.monacoOptions),
                         defaultBefore |-> Snapshot(heap, DefaultRef),
                         defaultAfter |-> Snapshot(r.heap, DefaultRef)]
  /\ UNCHANGED <<registryPresent, appMonaco, loads>>
  /\ UNCHANGED <<layoutVars, lifeVars, theme, fiddleVars>>

\* loadMonaco() while app.monaco is set: no await, the cached engine is used
LoadMonacoCached(owner) ==
  /\ Len(loads) < MaxCalls
  /\ appMonaco # NoEngine
  /\ loads' = Append(loads, [owner |-> owner, pc |-> "done", viaLoader |-> FALSE,
                             cachedAtCall |-> TRUE, monaco |-> appMonaco,
                             themeAtCall |-> theme])
  /\ appMonaco' = cacheEngine(appMonaco, appMonaco)
  /\ \E gc \in {Collect(heap, IF owner = "this" THEN setLoaded(state, appMonaco)
                                                ELSE state)} :
       state' = gc.state /\ heap' = gc.heap
  /\ last' = [op |-> "loadMonaco",
              activated |-> <<activateTheme(appMonaco, themeAtActivation(theme, theme))>>]
  /\ UNCHANGED <<registryPresent, editors>>
  /\ UNCHANGED <<layoutVars, lifeVars, theme, fiddleVars>>

\* loadMonaco() while app.monaco is unset: the loader is invoked and awaited
LoadMonacoAwait(owner) ==
  /\ Len(loads) < MaxCalls
  /\ appMonaco = NoEngine
  /\ loads' = Append(loads, [owner |-> owner, pc |-> "awaiting", viaLoader |-> TRUE,
                             cachedAtCall |-> FALSE, monaco |-> NoEngine,
                             themeAtCall |-> theme])
  /\ last' = [op |-> "loadMonaco", activated |-> <<>>]
  /\ UNCHANGED <<heap, state, registryPresent, editors, appMonaco>>
  /\ UNCHANGED <<layoutVars, lifeVars, theme, fiddleVars>>

\* the loader invoked by call i resolves with an engine: the call resumes
\* after its await and runs to its end
LoaderResolve(i, monaco) ==
  /\ loads[i].pc = "awaiting"
  /\ loads' = [loads EXCEPT ![i] = [@ EXCEPT !.pc = "done", !.monaco = monaco]]
  /\ appMonaco' = cacheEngine(appMonaco, monaco)
  /\ \E gc \in {Collect(heap, IF loads[i].owner = "this"
                                THEN setLoaded(state, monaco) ELSE state)} :
       state' = gc.state /\ heap' = gc.heap
  /\ last' = [op |-> "loaderResolve", call |-> i,
              activated |-> <<activateTheme(
                                monaco, themeAtActivation(loads[i].themeAtCall, theme))>>]
  /\ UNCHANGED <<registryPresent, editors>>
  /\ UNCHANGED <<layoutVars, lifeVars, theme, fiddleVars>>

\* the mosaic reports a change of the visible nodes: onChange(currentNode),
\* and with it the reaction of disposeLayoutAutorun
OnChange(currentNode) ==
  /\ state.isMounted /\ render(state) /\ ~unmounted
  /\ layoutTimer => Len(window.changes) < MaxChanges
  /\ \E r \in {onChange(currentNode, mosaicArrangement)} :
       /\ mosaicArrangement' = r.arrangement
       /\ layoutTimer' = IF r.reacted THEN updateEditorLayout(layoutTimer)
                                      ELSE layoutTimer
       /\ window' = IF r.arrangement = mosaicArrangement THEN window
                    ELSE IF layoutTimer
                           THEN [window EXCEPT !.changes = Append(@, r.arrangement)]
                           ELSE [changes |-> <<r.arrangement>>, writes |-> 0]
       /\ last' = [op |-> "onChange", node |-> currentNode,
                   observed |-> r.observed, reacted |-> r.reacted]
  /\ UNCHANGED <<heap, state, registryPresent, editors, appMonaco, loads>>
  /\ UNCHANGED <<lifeVars, theme, fiddleVars>>

\* the debounce delay has passed since the last updateEditorLayout call: the
\* pending call runs and lays the editors out for the arrangement as it is now
LayoutTimerFire ==
  /\ layoutTimer
  /\ layoutTimer' = FALSE
  /\ window' = [window EXCEPT !.writes = @ + 1]
  /\ last' = [op |-> "updateEditorLayout", arrangement |-> mosaicArrangement]
  /\ UNCHANGED <<heap, state, registryPresent, editors, appMonaco, loads>>
  /\ UNCHANGED <<mosaicArrangement, lifeVars, theme, fiddleVars>>

\* componentWillUnmount: this.disposeLayoutAutorun() ends the reaction
ComponentWillUnmount ==
  /\ state.isMounted /\ ~unmounted
  /\ unmounted' = TRUE
  /\ last' = [op |-> "componentWillUnmount"]
  /\ UNCHANGED <<heap, state, registryPresent, editors, appMonaco, loads>>
  /\ UNCHANGED <<layoutVars, stale, theme, fiddleVars>>

\* another theme is selected: appState.theme changes and, with an engine
\* loaded, the theme is activated again for it
SetTheme(name) ==
  /\ name # theme
  /\ theme' = name
  /\ last' = [op |-> "setTheme",
              activated |-> IF appMonaco # NoEngine
                              THEN <<activateTheme(appMonaco, name)>> ELSE <<>>]
  /\ UNCHANGED <<heap, state, registryPresent, editors, appMonaco, loads>>
  /\ UNCHANGED <<layoutVars, lifeVars, fiddleVars>>

\* an FS_NEW_FIDDLE message: the listener reads the version, sets the texts of
\* the discard dialog, which prompts the user, and requests the html content
NewFiddleMessage ==
  /\ state.isMounted
  /\ Len(requests) < MaxFiddles
  /\ dialog' = "showing"
  /\ requests' = Append(requests,
                        [pc |-> "html", version |-> version,
                         asked |-> versionForRequest(version, version),
                         got |-> <<>>])
  /\ last' = [op |-> "newFiddle"]
  /\ UNCHANGED <<heap, state, registryPresent, editors, appMonaco, loads>>
  /\ UNCHANGED <<layoutVars, lifeVars, theme, version, contents>>

\* the getContent call that run i awaits resolves: the run goes on to the next
\* pane, and after the last one calls setValues
GetContentResolve(i) ==
  /\ requests[i].pc \in EditorId
  /\ \E got \in {Append(requests[i].got, getContent(requests[i].pc, requests[i].asked))} :
       IF NextPane(requests[i].pc) = "done"
         THEN /\ contents' = setValues(got, i)
              /\ requests' = [requests EXCEPT ![i] = [@ EXCEPT !.pc = "done",
                                                                !.got = got]]
              /\ last' = [op |-> "setValues", run |-> i]
         ELSE /\ contents' = contents
              /\ requests' = [requests EXCEPT ![i] =
                                [@ EXCEPT !.pc = NextPane(@),
                                          !.asked = versionForRequest(
                                                      requests[i].version, version),
                                          !.got = got]]
              /\ last' = [op |-> "getContent", run |-> i]
  /\ UNCHANGED <<heap, state, registryPresent, editors, appMonaco, loads>>
  /\ UNCHANGED <<layoutVars, lifeVars, theme, version, dialog>>

\* the getContent call that run i awaits rejects: the listener ends there
GetContentReject(i) ==
  /\ requests[i].pc \in EditorId
  /\ requests' = [requests EXCEPT ![i] = [@ EXCEPT !.pc = "failed"]]
  /\ last' = [op |-> "getContentFailed", run |-> i]
  /\ UNCHANGED <<heap, state, registryPresent, editors, appMonaco, loads>>
  /\ UNCHANGED <<layoutVars, lifeVars, theme, version, dialog, contents>>

\* another Electron version is selected
SetVersion(v) ==
  /\ v # version
  /\ version' = v
  /\ last' = [op |-> "setVersion"]
  /\ UNCHANGED <<heap, state, registryPresent, editors, appMonaco, loads>>
  /\ UNCHANGED <<layoutVars, lifeVars, theme, dialog, contents, requests>>

\* the user answers the discard dialog
AnswerDialog(answer) ==
  /\ dialog = "showing"
  /\ dialog' = answer
  /\ last' = [op |-> "answerDialog"]
  /\ UNCHANGED <<heap, state, registryPresent, editors, appMonaco, loads>>
  /\ UNCHANGED <<layoutVars, lifeVars, theme, version, contents, requests>>

\* the unmounted component is replaced by a new Editors instance: the
\* constructor sets its state and calls loadMonaco, which runs to its end when
\* app.monaco is set and awaits the loader otherwise. The replaced instance
\* keeps its state, its listeners and its loadMonaco calls.
Remount ==
  /\ unmounted
  /\ Len(stale) < MaxRemounts
  /\ stale' = Append(stale, [monacoOptions |-> heap[state.monacoOptions]])
  /\ unmounted' = FALSE
  /\ loads' = Append([i \in DOMAIN loads |-> [loads[i] EXCEPT !.owner = "other"]],
                     [owner |-> "this",
                      pc |-> IF appMonaco = NoEngine THEN "awaiting" ELSE "done",
                      viaLoader |-> appMonaco = NoEngine,
                      cachedAtCall |-> appMonaco # NoEngine,
                      monaco |-> appMonaco, themeAtCall |-> theme])
  /\ \E st \in {[monaco |-> NoEngine, isMounted |-> FALSE,
                 monacoOptions |-> DefaultRef]} :
       \E gc \in {Collect(heap, IF appMonaco = NoEngine THEN st
                                ELSE setLoaded(st, appMonaco))} :
         state' = gc.state /\ heap' = gc.heap
  /\ last' = [op |-> "constructor"]
  /\ UNCHANGED <<registryPresent, editors, appMonaco>>
  /\ UNCHANGED <<layoutVars, theme, fiddleVars>>

\* a MONACO_EXECUTE_COMMAND message reaches the listeners registered for it
ExecuteCommandMessage ==
  /\ \E focused \in SUBSET LiveEditors(editors), command \in Commands :
       \E editor \in {getFocusedEditor(editors, registryPresent, focused)} :
         \E r \in {emitExecuteCommand(1, Listeners(stale, state), editor, command,
                                      [invocations |-> 0, runs |-> <<>>,
                                       threw |-> FALSE])} :
           last' = [op |-> "executeCommandMessage",
                    live |-> state.isMounted /\ ~unmounted,
                    invocations |-> r.invocations, runs |-> r.runs]
  /\ UNCHANGED <<heap, state, registryPresent, editors, appMonaco, loads>>
  /\ UNCHANGED <<layoutVars, lifeVars, theme, fiddleVars>>

\* a MONACO_TOGGLE_OPTION message reaches the listeners registered for it
ToggleOptionMessage ==
  /\ Cardinality(Ref \ DOMAIN heap) >= 2
  /\ \E path \in Paths :
       \E r \in {emitToggleOption(1, stale, state.isMounted /\ ~unmounted, path,
                                  registryPresent,
                                  [state |-> state, editors |-> editors,
                                   heap |-> heap, rets |-> <<>>])} :
         /\ state' = r.state
         /\ editors' = r.editors
         /\ heap' = r.heap
         /\ last' = [op |-> "toggleOptionMessage", path |-> path,
                     live |-> state.isMounted /\ ~unmounted,
                     invocations |-> Len(r.rets)]
  /\ UNCHANGED <<registryPresent, appMonaco, loads>>
  /\ UNCHANGED <<layoutVars, lifeVars, theme, fiddleVars>>

\* one Editors component from its construction on: it mounts, its engine
\* arrives, panes come and go, and messages reach it
Next ==
  \/ ComponentDidMount
  \/ \E id \in EditorId : PaneMount(id)
  \/ \E id \in EditorId : PaneUnmount(id)
  \/ ExecuteCommand
  \/ ToggleEditorOption
  \/ \E i \in DOMAIN loads, monaco \in Engine : LoaderResolve(i, monaco)

Spec == Init /\ [][Next]_vars

\* engine loading alone: loadMonaco is called again, by this component or by
\* another Editors instance, while earlier calls are in flight or done, and
\* the theme is changed
NextEngine ==
  \/ ComponentDidMount
  \/ \E owner \in {"this", "other"} : LoadMonacoCached(owner)
  \/ \E owner \in {"this", "other"} : LoadMonacoAwait(owner)
  \/ \E i \in DOMAIN loads, monaco \in Engine : LoaderResolve(i, monaco)
  \/ \E name \in Themes : SetTheme(name)

SpecEngine == Init /\ [][NextEngine]_vars

\* the arrangement: the mosaic changes it, the layout update follows after
\* the debounce delay, and the component is torn down
NextLayout ==
  \/ ComponentDidMount
  \/ \E i \in DOMAIN loads, monaco \in Engine : LoaderResolve(i, monaco)
  \/ \E currentNode \in Arrangements : OnChange(currentNode)
  \/ LayoutTimerFire
  \/ ComponentWillUnmount

SpecLayout == Init /\ [][NextLayout]_vars

\* new fiddles: FS_NEW_FIDDLE messages arrive at the mounted component, their
\* content requests resolve or fail, and meanwhile the user answers the dialog
\* and selects versions
NextFiddle ==
  \/ ComponentDidMount
  \/ NewFiddleMessage
  \/ \E i \in DOMAIN requests : GetContentResolve(i)
  \/ \E i \in DOMAIN requests : GetContentReject(i)
  \/ \E v \in Versions : SetVersion(v)
  \/ \E answer \in {"confirmed", "cancelled"} : AnswerDialog(answer)

SpecFiddle == Init /\ [][NextFiddle]_vars

\* the life of the component: it mounts, is unmounted and replaced by a new
\* instance, panes come and go, and messages arrive at any point
NextLifecycle ==
  \/ ComponentDidMount
  \/ ComponentWillUnmount
  \/ Remount
  \/ \E i \in DOMAIN loads, monaco \in Engine : LoaderResolve(i, monaco)
  \/ \E id \in EditorId : PaneMount(id)
  \/ \E id \in EditorId : PaneUnmount(id)
  \/ ExecuteCommandMessage
  \/ ToggleOptionMessage

SpecLifecycle == Init /\ [][NextLifecycle]_vars

----------------------------------------------------------------------------
(* Properties *)

\* the value a tree of values holds at a path, Undefined when the path leaves it
RECURSIVE TreeAt(_, _)
TreeAt(val, path) ==
  IF path = <<>> THEN val
  ELSE IF val.t # "obj" THEN Undefined
  ELSE IF Head(path) \notin DOMAIN val.v THEN Undefined
  ELSE TreeAt(val.v[Head(path)], Tail(path))

\* the paths of the option values
OptionPaths == { <<"minimap", "enabled">>, <<"wordWrap">> }

\* the value the toggle rule gives: a boolean negated, 'on' and 'off' exchanged
Negated(val) ==
  CASE val = Bool(TRUE) -> Bool(FALSE)
    [] val = Bool(FALSE) -> Bool(TRUE)
    [] val = Str("on") -> Str("off")
    [] val = Str("off") -> Str("on")
    [] OTHER -> Undefined

\* the values readable through this.state.monacoOptions
CurrentOptions == Snapshot(heap, state.monacoOptions)

\* the updateOptions calls of the last toggle that editor id received
AppliedTo(id) == {i \in DOMAIN last.applied : last.applied[i].editor = id}

\* C1: executeCommand is a silent no-op, raising no error and running nothing,
\* when the focused editor resolves the command id to no command or to a
\* command that reports itself unsupported.
C1_NoCommandIsSilentNoOp ==
  (last.op = "executeCommand" /\ last.editor # NoEditor
     /\ last.command \in {"null", "unsupported"})
  => (~last.threw /\ last.runs = <<>>)

\* C2: copy-on-write: after a toggle the options object that was current before
\* it, and the module-level default options object, hold the values they held
\* before it.
C2_OldSnapshotAndDefaultsUntouched ==
  last.op = "toggleEditorOption"
  => (last.oldAfter = last.oldBefore /\ last.defaultAfter = last.defaultBefore)

\* C3: after toggleEditorOption(path) returns true, every non-null editor of the
\* registry at call time received exactly one updateOptions call, carrying the
\* new snapshot, which holds the toggled value at path and at every other path
\* the value of the previous current snapshot.
C3_ToggleReachesEveryEditor ==
  (last.op = "toggleEditorOption" /\ last.ret)
  => /\ \A id \in last.registered :
          /\ Cardinality(AppliedTo(id)) = 1
          /\ \A i \in AppliedTo(id) : last.applied[i].options = last.newOptions
          /\ editors[id] = [options |-> last.newOptions]
     /\ \A i \in DOMAIN last.applied : last.applied[i].editor \in last.registered
     /\ TreeAt(last.newOptions, last.path) = Negated(TreeAt(last.oldBefore, last.path))
     /\ TreeAt(last.newOptions, last.path) # Undefined
     /\ \A p \in OptionPaths \ {last.path} :
          TreeAt(last.newOptions, p) = TreeAt(last.oldBefore, p)
     /\ CurrentOptions = last.newOptions

\* main and renderer are registered, minimap.enabled is false and is toggled:
\* both receive { minimap: { enabled: true }, wordWrap: 'on' } and true is returned
C3_Witness ==
  /\ last.op = "toggleEditorOption" /\ last.ret
  /\ last.path = <<"minimap", "enabled">>
  /\ last.registered = {"main", "renderer"}
  /\ TreeAt(last.oldBefore, <<"minimap", "enabled">>) = Bool(FALSE)
  /\ last.newOptions = Obj([minimap |-> Obj([enabled |-> Bool(TRUE)]),
                            wordWrap |-> Str("on")])
  /\ \A id \in {"main", "renderer"} : editors[id] = [options |-> last.newOptions]

\* C4: when one editor's updateOptions throws during a toggle, every other
\* editor of the registry still receives its updateOptions call with the new
\* snapshot.
C4_PushContinuesPastFailingEditor ==
  (last.op = "toggleEditorOption" /\ last.threw # NoEditor)
  => \A id \in last.registered \ {last.threw} :
       \E i \in AppliedTo(id) : last.applied[i].options = last.newOptions

\* C5: whenever toggleEditorOption returns false, the values readable through
\* the component's current options snapshot are those from before the call.
C5_FalseLeavesCurrentSnapshot ==
  (last.op = "toggleEditorOption" /\ ~last.ret)
  => CurrentOptions = last.oldBefore

C7_EditorsHoldCurrentOptions ==
  \A id \in EditorId :
    editors[id] # Null => editors[id].options = CurrentOptions

C9_CachedEngineIsReused ==
  [][appMonaco # NoEngine
     => /\ appMonaco' = appMonaco
        /\ LoaderInvocations' = LoaderInvocations
        /\ \A i \in DOMAIN loads' \ DOMAIN loads :
             /\ loads'[i].pc = "done"
             /\ loads'[i].monaco = appMonaco
             /\ loads'[i].owner = "this" => state'.monaco = appMonaco]_vars

\* a call made with the engine cached has ended with it, while a call that
\* invoked the loader resolved with another engine
C9_Witness ==
  \E i, j \in DOMAIN loads :
    /\ loads[i].cachedAtCall /\ loads[i].monaco = appMonaco
    /\ loads[j].viaLoader /\ loads[j].pc = "done"

\* C10: executeCommand with no editor registered, or with no editor reporting
\* focus, runs no command on any editor and raises no error.
C10_NoFocusedEditorIsNoOp ==
  (last.op = "executeCommand" /\ last.focused = {})
  => (last.runs = <<>> /\ ~last.threw)

\* editors are registered and none of them reports focus
C10_Witness ==
  /\ last.op = "executeCommand" /\ last.focused = {}
  /\ LiveEditors(editors) = EditorId
  /\ last.runs = <<>> /\ ~last.threw

\* C11: when one editor reports focus and resolves the command id to a
\* supported command, executeCommand runs that command once, on that editor,
\* and runs nothing on any other editor.
C11_FocusedSupportedRunsOnce ==
  \A id \in EditorId :
    (last.op = "executeCommand" /\ last.focused = {id} /\ last.command = "supported")
    => (last.runs = <<id>> /\ ~last.threw /\ last.editor = id)

\* renderer has focus and supports the command, main is registered too: one
\* run on renderer, none on main
C11_Witness ==
  /\ last.op = "executeCommand" /\ last.focused = {"renderer"}
  /\ last.command = "supported"
  /\ {"main", "renderer"} \subseteq LiveEditors(editors)
  /\ last.runs = <<"renderer">>

\* C15: while this.state holds no engine, render produces nothing: no pane is
\* mounted and no editor exists; panes appear only once the engine is in state.
C15_NoEngineNoPanes ==
  state.monaco = NoEngine => LiveEditors(editors) = {}

\* the component is mounted and its registry is there, but the engine has not
\* arrived: nothing is rendered
C15_Witness ==
  /\ state.isMounted /\ registryPresent
  /\ state.monaco = NoEngine
  /\ last.op = "componentDidMount"
  /\ LiveEditors(editors) = {}

\* C12: layout changes are coalesced: the arrangement changes of one debounce
\* window are followed by one layout update, which runs after the last of them
\* and acts on the latest arrangement; no update runs in between.
C12_OneLayoutUpdatePerWindow ==
  /\ window.writes <= 1
  /\ layoutTimer => window.writes = 0
  /\ (~layoutTimer /\ window.changes # <<>>) => window.writes = 1
  /\ last.op = "updateEditorLayout"
       => last.arrangement = window.changes[Len(window.changes)]

\* two or more changes in one window, then the one update
C12_Witness ==
  /\ last.op = "updateEditorLayout"
  /\ Len(window.changes) >= 2
  /\ window.writes = 1
  /\ last.arrangement = window.changes[Len(window.changes)]
  /\ last.arrangement # window.changes[1]

\* C13: a layout update pending at componentWillUnmount is cancelled: no
\* layout update runs after the teardown.
C13_NoLayoutUpdateAfterTeardown ==
  last.op = "updateEditorLayout" => ~unmounted

\* C17: the reaction triggered by onChange(node) reads the arrangement just
\* stored, never the previous one, and so does the debounced layout update
\* when it runs.
C17_ReactionSeesCommittedArrangement ==
  /\ (last.op = "onChange" /\ last.reacted)
       => (last.observed = last.node /\ mosaicArrangement = last.node)
  /\ last.op = "onChange" => mosaicArrangement = last.node
  /\ last.op = "updateEditorLayout" => last.arrangement = mosaicArrangement

\* onChange stored a new arrangement and the reaction ran
C17_Witness ==
  /\ last.op = "onChange" /\ last.reacted
  /\ last.node = Leaf("main")
  /\ mosaicArrangement = Leaf("main")
  /\ layoutTimer

C14_ReplaceOnlyAfterConfirmation ==
  /\ requests # <<>> => dialog # "hidden"
  /\ last.op = "setValues" => dialog = "confirmed"

\* C19: the contents of html, renderer and main are replaced together, in one
\* setValues of a listener run whose three requests all resolved, with the
\* content of the version read when that run's message arrived; a run with a
\* failed or unfinished request has replaced nothing.
C19_AllPanesOrNone ==
  /\ \/ \A id \in EditorId : contents[id].run = 0
     \/ \E i \in DOMAIN requests :
          /\ requests[i].pc = "done"
          /\ \A id \in EditorId :
               contents[id] = [pane |-> id, version |-> requests[i].version, run |-> i]
  /\ \A i \in DOMAIN requests :
       requests[i].pc # "done" => \A id \in EditorId : contents[id].run # i

\* a run replaced all three panes with the content of the version selected at
\* its arrival, which is no longer the selected one, while the other run failed
\* with part of its content fetched
C19_Witness ==
  /\ last.op = "setValues"
  /\ requests[last.run].version # version
  /\ \A id \in EditorId :
       contents[id] = [pane |-> id, version |-> requests[last.run].version,
                       run |-> last.run]
  /\ \E j \in DOMAIN requests : requests[j].pc = "failed" /\ requests[j].got # <<>>


\* C18: whatever mounts and unmounts came before, an execute-command message
\* runs at most one command and a toggle-option message makes exactly one
\* toggleEditorOption call, made by the mounted component; with the component
\* torn down a message makes no call.
C18_EachMessageActsOnce ==
  /\ last.op = "executeCommandMessage" =>
       /\ Len(last.runs) <= 1
       /\ last.invocations = IF last.live THEN 1 ELSE 0
  /\ last.op = "toggleOptionMessage" =>
       last.invocations = IF last.live THEN 1 ELSE 0

====
